---- MODULE Spec2Model ----
(***************************************************************************)
(* Debt-spiral simulation engine of DebtDeathSpiral/ds_v5.py: Loan,        *)
(* Market.get_offer and DebtSpiralSimulator.run_month, with the driver     *)
(* loop that advances a simulator month by month.                          *)
(*                                                                         *)
(* Money is fixed point: one unit is one cent (0.01), so the tolerance 1   *)
(* of the source is One = 100 units and round(x, 2) is rounding to a       *)
(* unit.  Rates are in units of 0.0001, so round(x, 4) is rounding to a    *)
(* unit and the ceiling 0.36 is 3600.  Decay and penalty factors are       *)
(* fractions <<numerator, denominator>>.  The product draw*0.03 is         *)
(* rounded to the grid, as the float product is rounded to the double      *)
(* grid.                                                                   *)
(***************************************************************************)
EXTENDS Integers, Sequences, FiniteSets, TLC

(* ------------------------------------------------------------------ *)
(* Bounds of the model                                                  *)
(* ------------------------------------------------------------------ *)
\* largest number of loans in an initial portfolio
MaxInitLoans == 2
\* largest number of run_month calls an unchecked caller makes
MaxCalls == 14
\* largest per-tier account count of an offer request made on its own
MaxCount == 3

(* ------------------------------------------------------------------ *)
(* Program constants                                                    *)
(* ------------------------------------------------------------------ *)
\* the tolerance 1 of "gap > 1" / "gap < 1", in cents
One == 100
\* range(24) of the driver loop
HORIZON == 24
\* min(rate, 0.36), in units of 0.0001
RATE_CAP == 3600
\* maturity of an originated loan
NEW_MATURITY == 12
\* draw*0.03: numerator over PCT_DEN
PCT_NUM == 3
PCT_DEN == 100
\* dummy org codes of originated loans
CODE_T1 == 11
CODE_T2 == 24
CODE_T3 == 51

\* variant: the last tier is never asked
Tiers_T1T2 == <<"T1", "T2">>

\* variant: the consumer-finance tier is asked before the banks
Tiers_T2first == <<"T2", "T1", "T3">>

\* funding_sources, in the order they are asked
Tiers == <<"T1", "T2", "T3">>

ORG_TIER_MAP ==
    [c \in {11, 14, 15, 52} |-> "T1"] @@
    [c \in {12, 16, 21, 23, 24, 31, 41} |-> "T2"] @@
    [c \in {22, 25, 26, 51, 53, 54, 99} |-> "T3"]

ACCT_TYPE_MAP ==
    [c \in {"R1", "R2", "R4"} |-> "Revolving"] @@
    [c \in {"D1", "R3"} |-> "Fixed"]

DEFAULT_RATES == [T1 |-> 800, T2 |-> 1800, T3 |-> 2400]

\* the value None of the optional rate argument
NoRate == -1

(* ------------------------------------------------------------------ *)
(* Arithmetic helpers                                                   *)
(* ------------------------------------------------------------------ *)
RECURSIVE Pow(_, _)
Pow(b, n) == IF n = 0 THEN 1 ELSE b * Pow(b, n - 1)

Min(a, b) == IF a <= b THEN a ELSE b

\* Python round(): nearest unit, ties to even; n >= 0, d > 0
Round(n, d) ==
    LET q == n \div d
        r == n % d
    IN  IF 2 * r < d THEN q
        ELSE IF 2 * r > d THEN q + 1
        ELSE IF q % 2 = 0 THEN q ELSE q + 1

RECURSIVE SumSeq(_)
SumSeq(s) == IF s = <<>> THEN 0 ELSE Head(s) + SumSeq(Tail(s))

(* ------------------------------------------------------------------ *)
(* Loan                                                                 *)
(* ------------------------------------------------------------------ *)
\* variant: a lender that is not in the table is taken for a bank
TierOf_T1default(org_code) ==
    IF org_code \in DOMAIN ORG_TIER_MAP THEN ORG_TIER_MAP[org_code] ELSE "T1"

\* ORG_TIER_MAP.get(self.org_code, 'T3')
TierOf(org_code) ==
    IF org_code \in DOMAIN ORG_TIER_MAP THEN ORG_TIER_MAP[org_code] ELSE "T3"

\* ACCT_TYPE_MAP.get(self.acct_type_code, 'Fixed')
LogicTypeOf(acct_type) ==
    IF acct_type \in DOMAIN ACCT_TYPE_MAP THEN ACCT_TYPE_MAP[acct_type] ELSE "Fixed"

Loan(name, org_code, acct_type, limit, balance, monthly_pay, maturity_months, rate) ==
    LET tier == TierOf(org_code)
    IN  [ name       |-> name,
          org_code   |-> org_code,
          acct_type_code |-> acct_type,
          tier       |-> tier,
          logic_type |-> LogicTypeOf(acct_type),
          limit      |-> limit,
          balance    |-> balance,
          monthly_pay |-> monthly_pay,
          maturity   |-> maturity_months,
          rate       |-> IF rate = NoRate THEN DEFAULT_RATES[tier] ELSE rate ]

(* ------------------------------------------------------------------ *)
(* Market                                                               *)
(* ------------------------------------------------------------------ *)
\* variant: the cross-tier block is never applied
ToxicBlocked_off(c, tier, current_counts) == FALSE

\* step 1 of get_offer: T1 is refused while a T3 loan is active
ToxicBlocked(c, tier, current_counts) ==
    c.TOXIC_BLOCK /\ tier = "T1" /\ current_counts["T3"] > 0

\* variant: one account more than the cap is let through
CapReached_gt(count, maxo) == count > maxo

\* "if count >= self.cfg['MAX_ORGS_Tn']: return 0, 0"
CapReached(count, maxo) == count >= maxo

\* variant: the penalised rate is returned without the ceiling
OfferRate_nocap(base_rate, pn, pd) == Round(base_rate * pn, pd)

\* rate = base_rate * penalty ** count, min(rate, 0.36), round(rate, 4);
\* the penalty power is the fraction pn / pd
OfferRate(base_rate, pn, pd) ==
    IF base_rate * pn >= RATE_CAP * pd
    THEN RATE_CAP
    ELSE Round(base_rate * pn, pd)

\* steps 2 and 3 of get_offer: account cap, limit, rate
LimitAndRate(c, tier, inc, count) ==
    LET maxo  == CASE tier = "T1" -> c.MAX_ORGS_T1
                   [] tier = "T2" -> c.MAX_ORGS_T2
                   [] OTHER       -> c.MAX_ORGS_T3
        decay == CASE tier = "T1" -> c.DECAY_T1
                   [] tier = "T2" -> c.DECAY_T2
                   [] OTHER       -> c.DECAY_T3
        base_rate == CASE tier = "T1" -> c.BASE_RATE_T1
                       [] tier = "T2" -> c.BASE_RATE_T2
                       [] OTHER       -> c.BASE_RATE_T3
    IN
    IF CapReached(count, maxo) THEN <<0, 0>>
    ELSE
      LET dn == Pow(decay[1], count)
          dd == Pow(decay[2], count)
          pn == Pow(c.PENALTY_RATE[1], count)
          pd == Pow(c.PENALTY_RATE[2], count)
          limit ==
            CASE tier = "T1" -> Round(inc * c.LIMIT_MUL_T1 * dn, dd)
              [] tier = "T2" -> Round(inc * c.LIMIT_MUL_T2 * dn, dd)
              [] OTHER ->
                   IF c.LIMIT_START_T3 * dn >= c.LIMIT_FLOOR_T3 * dd
                   THEN Round(c.LIMIT_START_T3 * dn, dd)
                   ELSE c.LIMIT_FLOOR_T3
          rate == OfferRate(base_rate, pn, pd)
      IN <<limit, rate>>

get_offer(c, tier, inc, current_counts) ==
    IF ToxicBlocked(c, tier, current_counts)
    THEN <<0, 0>>
    ELSE LimitAndRate(c, tier, inc, current_counts[tier])

(* ------------------------------------------------------------------ *)
(* Inputs                                                               *)
(* ------------------------------------------------------------------ *)
\* income, living_cost, savings of the borrower profile (cents)
Incomes == {100000}
LivingCosts == {80000, 100050, 150000}
SavingsChoices == {0, 60000}

\* rows of the imported loan table:
\* <<Org_Code, Type, Limit, Balance, Payment, Months>>
LoanRows ==
    { <<11, "R1", 61000, 10100, 1000, 2>>,     \* T1 revolving, headroom 509.00
      <<77, "R2", 20000, 0, 500, 3>>,          \* unmapped org, revolving, not drawn
      <<24, "D1", 300000, 300000, 2000, 1>>,   \* T2 fixed, matures in month 1
      <<51, "XX", 5000, 4000, 100, 30>> }      \* T3, unmapped account type

RECURSIVE SeqsUpTo(_, _)
SeqsUpTo(S, n) ==
    IF n = 0 THEN {<<>>}
    ELSE LET R == SeqsUpTo(S, n - 1)
         IN  R \cup {Append(r, x) : r \in {q \in R : Len(q) = n - 1}, x \in S}

Portfolios == SeqsUpTo(LoanRows, MaxInitLoans)

\* <<MAX_ORGS_T1, MAX_ORGS_T2, MAX_ORGS_T3>>
MaxOrgsChoices == { <<0, 0, 0>>, <<1, 1, 2>>, <<2, 2, 3>> }

\* PENALTY_RATE going with a choice of account caps: 1.6 or 1.15
PenaltyChoice(m) == IF m = <<1, 1, 2>> THEN <<8, 5>> ELSE <<23, 20>>

Configs ==
    { [ TOXIC_BLOCK |-> tb, PENALTY_RATE |-> PenaltyChoice(m),
        MAX_ORGS_T1 |-> m[1], LIMIT_MUL_T1 |-> 1, DECAY_T1 |-> <<9, 10>>,
        BASE_RATE_T1 |-> 800,
        MAX_ORGS_T2 |-> m[2], LIMIT_MUL_T2 |-> 1, DECAY_T2 |-> <<17, 20>>,
        BASE_RATE_T2 |-> 1800,
        MAX_ORGS_T3 |-> m[3], LIMIT_START_T3 |-> 30000, LIMIT_FLOOR_T3 |-> 20000,
        DECAY_T3 |-> <<1, 2>>, BASE_RATE_T3 |-> 2400 ]
      : tb \in BOOLEAN, m \in MaxOrgsChoices }

(* ------------------------------------------------------------------ *)
(* State                                                                *)
(* ------------------------------------------------------------------ *)
VARIABLES
    cfg,             \* Market.cfg
    income, savings, living_cost, loans, month, is_dead, death_reason,
    structured_logs, history,          \* DebtSpiralSimulator fields
    pc,              \* position inside run_month, "idle" between calls
    total_payment, total_outflow, gap, \* locals of run_month
    k,               \* index of the revolving loop
    source,          \* index of the funding_sources loop
    i,               \* loop counter of the caller
    selected_client_loans,  \* the Loan objects built from the table
    pre              \* savings, loans, is_dead when the running call began

vars == <<cfg, income, savings, living_cost, loans, month, is_dead, death_reason,
          structured_logs, history, pc, total_payment, total_outflow, gap,
          k, source, i, pre, selected_client_loans>>

simFixed == <<cfg, income, living_cost>>

\* the rows of the table become Loan objects (no rate column: rate = None)
LoadLoans(rows) ==
    [n \in 1..Len(rows) |->
        Loan([src |-> "init", n |-> n], rows[n][1], rows[n][2], rows[n][3],
             rows[n][4], rows[n][5], rows[n][6], NoRate)]

\* the two worked scenarios of the specification, as further inputs
Examples ==
    { [ cfg |-> CHOOSE c \in Configs : c.TOXIC_BLOCK /\ c.MAX_ORGS_T1 = 2,
        income |-> 1200000, savings |-> 0, living_cost |-> 350000,
        rows |-> << <<51, "R1", 2000000, 1900000, 60000, 12>> >> ],
      [ cfg |-> CHOOSE c \in Configs : c.TOXIC_BLOCK /\ c.MAX_ORGS_T3 = 0,
        income |-> 500000, savings |-> 0, living_cost |-> 600000,
        rows |-> <<>> ] }

\* inputs the forms and the loan table let through as they are: an income
\* of 0 (the lower end of the income field) and a table row with a negative
\* limit, balance and payment
Unvalidated ==
    { [ cfg |-> CHOOSE c \in Configs : c.TOXIC_BLOCK /\ c.MAX_ORGS_T3 = 2,
        income |-> 0, savings |-> 60000, living_cost |-> 80000,
        rows |-> <<>> ],
      [ cfg |-> CHOOSE c \in Configs : c.TOXIC_BLOCK /\ c.MAX_ORGS_T3 = 2,
        income |-> 100000, savings |-> 0, living_cost |-> 80000,
        rows |-> << <<51, "D1", -1000, -500, -100, 6>> >> ] }

Inputs ==
    { [cfg |-> c, income |-> inc, savings |-> sv, living_cost |-> lc, rows |-> rows]
      : c \in Configs, inc \in Incomes, sv \in SavingsChoices, lc \in LivingCosts,
        rows \in Portfolios }
    \cup Examples \cup Unvalidated

\* variant: the simulator is handed the list itself
deepcopy_alias(obj) == obj

\* copy.deepcopy: a new list object holding new Loan objects, equal in value
deepcopy(obj) == "sim_loans"

\* the list object sim.loans refers to
sim_loans == deepcopy("selected_client_loans")

\* a change the simulator makes to its loans shows in selected_client_loans
\* exactly if both names refer to one list object
SharedObjects ==
    selected_client_loans' =
        IF sim_loans = "selected_client_loans" THEN loans' ELSE selected_client_loans

\* DebtSpiralSimulator.__init__ on the loaded inputs
Init ==
    /\ \E in \in Inputs :
          /\ cfg = in.cfg
          /\ income = in.income
          /\ savings = in.savings
          /\ living_cost = in.living_cost
          /\ selected_client_loans = LoadLoans(in.rows)
          /\ loans = selected_client_loans
    /\ month = 0
    /\ is_dead = FALSE
    /\ death_reason = <<>>
    /\ structured_logs = <<>>
    /\ history = <<>>
    /\ pc = "idle"
    /\ total_payment = 0
    /\ total_outflow = 0
    /\ gap = 0
    /\ k = 0
    /\ source = 0
    /\ i = 0
    /\ pre = [savings |-> savings, loans |-> loans, is_dead |-> FALSE]

(* ------------------------------------------------------------------ *)
(* DebtSpiralSimulator helpers                                          *)
(* ------------------------------------------------------------------ *)
log(logs, m, category, event, amount, detail) ==
    Append(logs, [month |-> m, category |-> category, event |-> event,
                  amount |-> amount, detail |-> detail])

get_counts(ls) ==
    [t \in {"T1", "T2", "T3"} |->
        Cardinality({n \in 1..Len(ls) : ls[n].balance > 0 /\ ls[n].tier = t})]

TierDebt(ls, t) ==
    SumSeq([n \in 1..Len(ls) |-> IF ls[n].tier = t THEN ls[n].balance ELSE 0])

\* variant: the total leaves out the T3 debt
record_stats_not3(h, m, ls, sv, g) ==
    Append(h, [Month |-> m, T1_Debt |-> TierDebt(ls, "T1"),
               T2_Debt |-> TierDebt(ls, "T2"), T3_Debt |-> TierDebt(ls, "T3"),
               Total_Debt |-> TierDebt(ls, "T1") + TierDebt(ls, "T2"),
               Savings |-> sv, Gap |-> g])

\* variant: the snapshot is taken with the default argument gap=0
record_stats_nogap(h, m, ls, sv, g) ==
    Append(h, [Month |-> m, T1_Debt |-> TierDebt(ls, "T1"),
               T2_Debt |-> TierDebt(ls, "T2"), T3_Debt |-> TierDebt(ls, "T3"),
               Total_Debt |-> TierDebt(ls, "T1") + TierDebt(ls, "T2") + TierDebt(ls, "T3"),
               Savings |-> sv, Gap |-> 0])

record_stats(h, m, ls, sv, g) ==
    LET t1_debt == TierDebt(ls, "T1")
        t2_debt == TierDebt(ls, "T2")
        t3_debt == TierDebt(ls, "T3")
    IN  Append(h, [Month |-> m, T1_Debt |-> t1_debt, T2_Debt |-> t2_debt,
                   T3_Debt |-> t3_debt,
                   Total_Debt |-> t1_debt + t2_debt + t3_debt,
                   Savings |-> sv, Gap |-> g])

(* ------------------------------------------------------------------ *)
(* run_month, in the order of its statements                            *)
(* ------------------------------------------------------------------ *)
\* variant: the payment is taken off the balance
PayLoop_amortize(ls) ==
    [n \in 1..Len(ls) |->
        IF ls[n].balance > 0
        THEN [ls[n] EXCEPT !.maturity = ls[n].maturity - 1,
                           !.balance = ls[n].balance - ls[n].monthly_pay]
        ELSE ls[n]]

\* variant: every loan counts down, drawn or not
PayLoop_all(ls) ==
    [n \in 1..Len(ls) |-> [ls[n] EXCEPT !.maturity = ls[n].maturity - 1]]

\* the payment loop: a loan with balance > 0 is due and counts down
PayLoop(ls) ==
    [n \in 1..Len(ls) |->
        IF ls[n].balance > 0
        THEN [ls[n] EXCEPT !.maturity = ls[n].maturity - 1]
        ELSE ls[n]]

\* variant: a month of interest at the loan's rate is due with the payment
PaymentsDue_interest(ls) ==
    SumSeq([n \in 1..Len(ls) |->
               IF ls[n].balance > 0
               THEN ls[n].monthly_pay + Round(ls[n].balance * (ls[n].rate \div 100), 1200)
               ELSE 0])

PaymentsDue(ls) ==
    SumSeq([n \in 1..Len(ls) |-> IF ls[n].balance > 0 THEN ls[n].monthly_pay ELSE 0])

ActiveCount(ls) == Cardinality({n \in 1..Len(ls) : ls[n].balance > 0})

\* month += 1, living cost, payment loop
run_month_pay ==
    /\ pre' = [savings |-> savings, loans |-> loans, is_dead |-> is_dead]
    /\ month' = month + 1
    /\ total_payment' = PaymentsDue(loans)
    /\ total_outflow' = living_cost + PaymentsDue(loans)
    /\ loans' = PayLoop(loans)
    /\ structured_logs' =
         log(log(structured_logs, month', "expense", "living_cost", -living_cost, <<>>),
             month', "expense", "monthly_payment", -PaymentsDue(loans),
             <<ActiveCount(loans)>>)
    /\ pc' = "mature"
    /\ gap' = 0
    /\ k' = 0
    /\ source' = 0
    /\ UNCHANGED <<simFixed, savings, is_dead, death_reason, history>>
    /\ SharedObjects

\* variant: a loan comes due one month late
Matured_lt(ls) == {n \in 1..Len(ls) : ls[n].balance > 0 /\ ls[n].maturity < 0}

\* the loans that mature: balance > 0 and maturity <= 0
Matured(ls) == {n \in 1..Len(ls) : ls[n].balance > 0 /\ ls[n].maturity <= 0}

MaturedPrincipal(ls) ==
    SumSeq([n \in 1..Len(ls) |-> IF n \in Matured(ls) THEN ls[n].balance ELSE 0])

MaturedDetails(ls) ==
    SelectSeq([n \in 1..Len(ls) |->
                  [name |-> ls[n].name, tier |-> ls[n].tier, hit |-> n \in Matured(ls)]],
              LAMBDA d : d.hit)

PayOff(ls) ==
    [n \in 1..Len(ls) |->
        IF n \in Matured(ls) THEN [ls[n] EXCEPT !.balance = 0] ELSE ls[n]]

\* variant: the matured principal is logged but not added to the outflow
OutflowWithPrincipal_dropped(outflow, matured_principal) == outflow

\* total_outflow after the maturity pass
OutflowWithPrincipal(outflow, matured_principal) ==
    IF matured_principal > 0 THEN outflow + matured_principal ELSE outflow

run_month_mature ==
    /\ pc = "mature"
    /\ LET matured_principal == MaturedPrincipal(loans)
       IN  /\ loans' = PayOff(loans)
           /\ structured_logs' =
                IF matured_principal > 0
                THEN log(structured_logs, month, "shock", "principal_due",
                         -matured_principal, MaturedDetails(loans))
                ELSE structured_logs
           /\ total_outflow' = OutflowWithPrincipal(total_outflow, matured_principal)
    /\ pc' = "netflow"
    /\ UNCHANGED <<simFixed, savings, month, is_dead, death_reason, history,
                   total_payment, gap, k, source, i, pre>>
    /\ SharedObjects

\* variant: the whole gap is withdrawn, whatever the reserve holds
ReserveUsed_gap(sv, g) == g

\* variant: the whole reserve is withdrawn
ReserveUsed_all(sv, g) == sv

\* used = min(savings, gap) when savings > 0
ReserveUsed(sv, g) == IF sv > 0 THEN Min(sv, g) ELSE 0

\* where run_month goes once the revolving loop is over (line "if gap > 1")
AfterRevolve(g) == IF g > One THEN "for" ELSE "record"

\* variant: new borrowing comes right after the reserve
AfterReserve_skip(g, ls) == IF g > One THEN "for" ELSE "record"

\* where run_month goes after the reserve stage (line "if gap > 1", then the loop)
AfterReserve(g, ls) ==
    IF g > One
    THEN (IF Len(ls) = 0 THEN AfterRevolve(g) ELSE "revolve")
    ELSE "record"

\* net_flow >= 0: the month's surplus goes to savings
run_month_surplus ==
    /\ pc = "netflow"
    /\ LET net_flow == income - total_outflow
       IN  /\ net_flow >= 0
           /\ savings' = savings + net_flow
           /\ structured_logs' =
                log(log(structured_logs, month, "income", "salary", income, <<>>),
                    month, "saving", "deposit", net_flow, <<>>)
    /\ gap' = 0
    /\ pc' = "record"
    /\ UNCHANGED <<simFixed, loans, month, is_dead, death_reason, history,
                   total_payment, total_outflow, k, source, i, pre>>
    /\ SharedObjects

\* net_flow < 0: gap, then savings are used up first
run_month_deficit ==
    /\ pc = "netflow"
    /\ LET net_flow == income - total_outflow
           gap0 == -net_flow
           used == ReserveUsed(savings, gap0)
           logs1 == log(log(structured_logs, month, "income", "salary", income, <<>>),
                        month, "warning", "gap", -gap0, <<>>)
       IN  /\ net_flow < 0
           /\ savings' = savings - used
           /\ gap' = gap0 - used
           /\ structured_logs' =
                IF savings > 0
                THEN log(logs1, month, "fill", "use_savings", used, <<>>)
                ELSE logs1
           /\ pc' = AfterReserve(gap0 - used, loans)
    /\ k' = 1
    /\ source' = 1
    /\ UNCHANGED <<simFixed, loans, month, is_dead, death_reason, history,
                   total_payment, total_outflow, i, pre>>
    /\ SharedObjects

\* variant: a loan that has come due is closed to further draws
CanDraw_open(l) == l.logic_type = "Revolving" /\ l.balance < l.limit /\ l.maturity > 0

\* the condition of the revolving loop to draw on a loan
CanDraw(l) == l.logic_type = "Revolving" /\ l.balance < l.limit

\* "if gap < 1: break" after a draw
RevolveBreak(g) == g < One

\* variant: the whole gap is drawn, whatever the headroom
RevolveDraw_gap(l, g) == g

\* draw = min(loan.limit - loan.balance, gap)
RevolveDraw(l, g) == Min(l.limit - l.balance, g)

\* one iteration of the revolving loop that draws on loan k
run_month_revolve_draw ==
    /\ pc = "revolve"
    /\ k <= Len(loans)
    /\ CanDraw(loans[k])
    /\ LET draw == RevolveDraw(loans[k], gap)
       IN  /\ loans' = [loans EXCEPT ![k].balance = loans[k].balance + draw]
           /\ gap' = gap - draw
           /\ structured_logs' =
                log(structured_logs, month, "fill", "revolving_draw", draw,
                    <<loans[k].name>>)
           /\ IF RevolveBreak(gap - draw) \/ k = Len(loans)
              THEN pc' = AfterRevolve(gap - draw) /\ k' = k
              ELSE pc' = "revolve" /\ k' = k + 1
    /\ UNCHANGED <<simFixed, savings, month, is_dead, death_reason, history,
                   total_payment, total_outflow, source, i, pre>>
    /\ SharedObjects

\* one iteration of the revolving loop that passes over loan k
run_month_revolve_skip ==
    /\ pc = "revolve"
    /\ k <= Len(loans)
    /\ ~CanDraw(loans[k])
    /\ IF k = Len(loans)
       THEN pc' = AfterRevolve(gap) /\ k' = k
       ELSE pc' = "revolve" /\ k' = k + 1
    /\ UNCHANGED <<simFixed, savings, loans, month, is_dead, death_reason, history,
                   structured_logs, total_payment, total_outflow, gap, source, i, pre>>
    /\ SharedObjects

\* top of an iteration of "for source in funding_sources"
run_month_for ==
    /\ pc = "for"
    /\ pc' = IF source > Len(Tiers) \/ gap < One THEN "record" ELSE "while"
    /\ UNCHANGED <<simFixed, savings, loans, month, is_dead, death_reason, history,
                   structured_logs, total_payment, total_outflow, gap, k, source,
                   i, pre>>
    /\ SharedObjects

\* "while gap > 1" is over: next source
run_month_while_exit ==
    /\ pc = "while"
    /\ ~(gap > One)
    /\ source' = source + 1
    /\ pc' = "for"
    /\ UNCHANGED <<simFixed, savings, loans, month, is_dead, death_reason, history,
                   structured_logs, total_payment, total_outflow, gap, k, i, pre>>
    /\ SharedObjects

Offer == get_offer(cfg, Tiers[source], income, get_counts(loans))

\* the Market refuses: log the toxic block, break to the next source
run_month_refused ==
    /\ pc = "while"
    /\ gap > One
    /\ Offer[1] <= 0
    /\ structured_logs' =
         IF Tiers[source] = "T1" /\ get_counts(loans)["T3"] > 0 /\ cfg.TOXIC_BLOCK
         THEN log(structured_logs, month, "rejected", "T1_risk_control", 0, <<"toxic">>)
         ELSE structured_logs
    /\ source' = source + 1
    /\ pc' = "for"
    /\ UNCHANGED <<simFixed, savings, loans, month, is_dead, death_reason, history,
                   total_payment, total_outflow, gap, k, i, pre>>
    /\ SharedObjects

NewCode(src) == IF src = "T1" THEN CODE_T1 ELSE (IF src = "T2" THEN CODE_T2 ELSE CODE_T3)

\* variant: nothing is drawn on the new loan
NewDraw_zero(limit, g) == 0

\* variant: the whole offered limit is drawn
NewDraw_limit(limit, g) == limit

\* draw = min(limit, gap)
NewDraw(limit, g) == Min(limit, g)

\* variant: the loan is booked with its whole limit as balance
NewLoan_full(src, m, limit, draw, rate) ==
    Loan([src |-> src, n |-> m], NewCode(src), "R1", limit,
         limit, Round(draw * PCT_NUM, PCT_DEN), NEW_MATURITY, rate)

\* Loan(f"new{source}_{month}", code, 'R1', limit, draw, draw*0.03, 12, rate)
NewLoan(src, m, limit, draw, rate) ==
    Loan([src |-> src, n |-> m], NewCode(src), "R1", limit,
         draw, Round(draw * PCT_NUM, PCT_DEN), NEW_MATURITY, rate)

\* the Market offers: a new loan is originated and drawn
run_month_originate ==
    /\ pc = "while"
    /\ gap > One
    /\ Offer[1] > 0
    /\ LET limit == Offer[1]
           rate  == Offer[2]
           draw  == NewDraw(limit, gap)
           src   == Tiers[source]
           new_loan == NewLoan(src, month, limit, draw, rate)
       IN  /\ loans' = Append(loans, new_loan)
           /\ gap' = gap - draw
           /\ structured_logs' =
                log(structured_logs, month, "borrow", "approved", draw, <<src, rate>>)
    /\ pc' = "while"
    /\ UNCHANGED <<simFixed, savings, month, is_dead, death_reason, history,
                   total_payment, total_outflow, k, source, i, pre>>
    /\ SharedObjects

\* variant: the flag is assigned the outcome of the test
DeathCheck_assign(dead, g) == g > One

\* variant: any remaining gap counts as a default
DeathCheck_any(dead, g) == IF g > 0 THEN TRUE ELSE dead

\* "if gap > 1: self.is_dead = True"
DeathCheck(dead, g) == IF g > One THEN TRUE ELSE dead

\* record_stats(gap) and the default check
run_month_record ==
    /\ pc = "record"
    /\ history' = record_stats(history, month, loans, savings, gap)
    /\ is_dead' = DeathCheck(is_dead, gap)
    /\ death_reason' = IF gap > One THEN <<"cash_chain_broken", gap>> ELSE death_reason
    /\ pc' = "idle"
    /\ UNCHANGED <<simFixed, savings, loans, month, structured_logs,
                   total_payment, total_outflow, gap, k, source, i, pre>>
    /\ SharedObjects

Steps ==
    \/ run_month_mature
    \/ run_month_surplus
    \/ run_month_deficit
    \/ run_month_revolve_draw
    \/ run_month_revolve_skip
    \/ run_month_for
    \/ run_month_while_exit
    \/ run_month_refused
    \/ run_month_originate
    \/ run_month_record

(* ------------------------------------------------------------------ *)
(* Callers                                                              *)
(* ------------------------------------------------------------------ *)
\* variant: the driver never looks at the flag
ShouldBreak_never(dead) == FALSE

\* "if sim.is_dead: break" of the driver loop
ShouldBreak(dead) == dead

\* the driver loop: for i in range(24): if sim.is_dead: break; sim.run_month()
DriverCall ==
    /\ pc = "idle"
    /\ i < HORIZON
    /\ ~ShouldBreak(is_dead)
    /\ i' = i + 1
    /\ run_month_pay

DriverBreak ==
    /\ pc = "idle"
    /\ i < HORIZON
    /\ ShouldBreak(is_dead)
    /\ pc' = "done"
    /\ UNCHANGED <<simFixed, savings, loans, month, is_dead, death_reason, history,
                   structured_logs, total_payment, total_outflow, gap, k, source,
                   i, pre>>
    /\ SharedObjects

DriverEnd ==
    /\ pc = "idle"
    /\ i = HORIZON
    /\ pc' = "done"
    /\ UNCHANGED <<simFixed, savings, loans, month, is_dead, death_reason, history,
                   structured_logs, total_payment, total_outflow, gap, k, source,
                   i, pre>>
    /\ SharedObjects

\* a caller of the class that calls run_month without looking at is_dead
AnyCall ==
    /\ pc = "idle"
    /\ i < MaxCalls
    /\ i' = i + 1
    /\ run_month_pay

Next == AnyCall \/ Steps

Spec == Init /\ [][Next]_vars

NextDriver == DriverCall \/ DriverBreak \/ DriverEnd \/ Steps

SpecDriver == Init /\ [][NextDriver]_vars

\* run_month is straight-line code and loops run by one thread: a call
\* that has begun goes on taking its steps
SpecFair == Init /\ [][NextDriver]_vars /\ WF_vars(Steps)

(* ------------------------------------------------------------------ *)
(* Properties                                                           *)
(* ------------------------------------------------------------------ *)
LastSnapshot == history[Len(history)]

\* a call of run_month has returned
Returned == pc = "idle" /\ month > 0

\* C1: a call of run_month on a simulator whose is_dead flag is set is
\* rejected: month, savings, the loans, the history and the log stay as
\* they are.
C1_DeadCallRejected ==
    [][is_dead => /\ month' = month
                  /\ savings' = savings
                  /\ loans' = loans
                  /\ history' = history
                  /\ structured_logs' = structured_logs]_vars

\* C2: in a run of the driver loop, once is_dead is set in month m there is
\* no snapshot for month m+1: the month counter stays at m and the last
\* snapshot of the history is the one of the death month, the only one
\* with an unmet gap above the tolerance.
C2_NoSnapshotAfterDeath ==
    is_dead =>
        /\ pc \in {"idle", "done"}
        /\ Len(history) = month
        /\ LastSnapshot.Month = month
        /\ LastSnapshot.Gap > One
        /\ \A n \in 1..(Len(history) - 1) : history[n].Gap <= One

C2_Witness == is_dead /\ pc = "done" /\ i < HORIZON /\ month > 1

\* C3: Dead is terminal, whatever sequence of calls is made: is_dead never
\* goes back to false, and it goes from false to true only in the default
\* check that ends a step, with a gap above the tolerance.
C3_DeadIsTerminal ==
    [][/\ is_dead \in BOOLEAN
       /\ is_dead => is_dead'
       /\ (~is_dead /\ is_dead') => (pc = "record" /\ pc' = "idle" /\ gap > One)]_vars

\* a later step of a dead simulator has ended without an unmet gap
C3_Witness == is_dead /\ Returned /\ pre.is_dead /\ LastSnapshot.Gap <= One

\* C4: when a step taken from an Alive simulator has ended, is_dead holds
\* exactly if the gap left by the resolution stages is above 1, and that
\* gap is the Gap of the snapshot the step appended.
C4_DeadIffUnmetGap ==
    (Returned /\ ~pre.is_dead) =>
        /\ is_dead <=> (gap > One)
        /\ LastSnapshot.Gap = gap
        /\ LastSnapshot.Month = month

\* a gap within the tolerance was left and the simulator is alive
C4_Witness == Returned /\ ~pre.is_dead /\ ~is_dead /\ gap > 0 /\ LastSnapshot.Gap = gap

\* the loans the simulator held when the running call began
PreIdx == 1..Len(pre.loans)

\* income minus living cost, the payments of the loans that had a balance
\* and the principal of those that reach their maturity in this month,
\* from the state in which the call began
PreNetFlow ==
    income
    - living_cost
    - SumSeq([n \in PreIdx |->
                 IF pre.loans[n].balance > 0 THEN pre.loans[n].monthly_pay ELSE 0])
    - SumSeq([n \in PreIdx |->
                 IF pre.loans[n].balance > 0 /\ pre.loans[n].maturity - 1 <= 0
                 THEN pre.loans[n].balance ELSE 0])

\* the log entries of the current month
MonthLog == SelectSeq(structured_logs, LAMBDA e : e.month = month)

NoBorrowingLogged ==
    \A n \in 1..Len(MonthLog) : MonthLog[n].event \notin {"revolving_draw", "approved"}

\* the first scenario of the specification: income 12000, living cost 3500,
\* one T3 revolving loan with payment 600: the reserve becomes 7900
SurplusExample ==
    (income = 1200000 /\ living_cost = 350000 /\ month = 1 /\ Returned) =>
        savings = 790000 /\ Len(loans) = 1 /\ ~is_dead

\* C5: a month whose net flow is >= 0 adds exactly the net flow to the
\* savings, originates no loan, draws on no loan, records an unmet gap of
\* 0 and leaves an Alive simulator Alive.
C5_SurplusMonth ==
    /\ (Returned /\ PreNetFlow >= 0) =>
          /\ savings = pre.savings + PreNetFlow
          /\ Len(loans) = Len(pre.loans)
          /\ \A n \in PreIdx : loans[n].balance <= pre.loans[n].balance
          /\ NoBorrowingLogged
          /\ LastSnapshot.Gap = 0
          /\ LastSnapshot.Savings = savings
          /\ is_dead = pre.is_dead
    /\ SurplusExample

\* a surplus month in which a loan came due in full and was paid from income
C5_Witness ==
    /\ Returned /\ PreNetFlow > 0 /\ ~is_dead
    /\ \E n \in PreIdx : pre.loans[n].balance > 0 /\ loans[n].balance = 0

\* C6: a month whose gap is covered by the savings alone takes exactly the
\* gap out of the savings, draws on no loan and originates none, also when
\* a revolving loan has headroom.
C6_ReserveCoversGap ==
    (Returned /\ PreNetFlow < 0 /\ pre.savings >= -PreNetFlow) =>
        /\ savings = pre.savings + PreNetFlow
        /\ Len(loans) = Len(pre.loans)
        /\ \A n \in PreIdx : loans[n].balance <= pre.loans[n].balance
        /\ NoBorrowingLogged
        /\ LastSnapshot.Gap = 0

\* the gap was smaller than the savings and a revolving loan had headroom
C6_Witness ==
    /\ Returned /\ PreNetFlow < 0 /\ pre.savings > -PreNetFlow
    /\ \E n \in 1..Len(loans) : CanDraw(loans[n])

\* C7 as stated: every held loan whose maturity event has not happened
\* counts down by exactly 1 in every simulated month.
C7_EveryLoanCountsDown ==
    (month > 0) =>
        \A n \in PreIdx :
            pre.loans[n].maturity > 0 => loans[n].maturity = pre.loans[n].maturity - 1

\* C7 amended: in every simulated month the maturity of a held loan goes
\* down by exactly 1 if the loan has a balance > 0 when the month begins
\* and stays as it is otherwise; no later stage of the month changes it,
\* and it never increases.
C7_CountsDownWhileDrawn ==
    (month > 0) =>
        \A n \in PreIdx :
            /\ loans[n].maturity =
                 IF pre.loans[n].balance > 0
                 THEN pre.loans[n].maturity - 1
                 ELSE pre.loans[n].maturity
            /\ loans[n].maturity <= pre.loans[n].maturity

\* a month in which one loan counted down and an undrawn one did not
C7_Witness ==
    /\ Returned
    /\ \E n \in PreIdx : pre.loans[n].balance > 0
                         /\ loans[n].maturity = pre.loans[n].maturity - 1
    /\ \E n \in PreIdx : pre.loans[n].balance = 0 /\ pre.loans[n].maturity > 0
                         /\ loans[n].maturity = pre.loans[n].maturity

\* the maturity event of a loan has happened: it counted down to 0 or below
\* with a balance, and the balance was paid off (no input loan starts so)
HasMatured(l) == l.maturity <= 0 /\ l.balance = 0

\* C8: after its maturity event the balance of a loan is 0 for good: no
\* step of run_month, in the same month or a later one, draws on it, so it
\* cannot come due a second time.
C8_NoDrawAfterMaturity ==
    [][\A n \in 1..Len(loans) : HasMatured(loans[n]) => loans'[n].balance = 0]_vars

\* the step originates a loan, the last of the collection afterwards
Originating == Len(loans') = Len(loans) + 1

TierRank == [T1 |-> 1, T2 |-> 2, T3 |-> 3]

\* the loans originated in the current month, by position
NewThisMonth(ls) ==
    {n \in 1..Len(ls) : ls[n].name.src # "init" /\ ls[n].name.n = month}

OfferLimit(tier, ls) == get_offer(cfg, tier, income, get_counts(ls))[1]

\* C9: the loans a month originates come in the order T1, T2, T3, and a
\* T2 loan is originated only when the Market's T1 offer for the current
\* counts has limit 0, a T3 loan only when its T2 offer has limit 0.
C9_TierOrder ==
    [][Originating =>
         LET t == loans'[Len(loans')].tier
         IN  /\ \A n \in NewThisMonth(loans) : TierRank[loans[n].tier] <= TierRank[t]
             /\ t = "T2" => OfferLimit("T1", loans) = 0 /\ OfferLimit("T1", loans') = 0
             /\ t = "T3" => OfferLimit("T2", loans) = 0 /\ OfferLimit("T2", loans') = 0]_vars

\* one month originated loans of all three tiers
C9_Witness ==
    \A t \in {"T1", "T2", "T3"} : \E n \in NewThisMonth(loans) : loans[n].tier = t

\* offer requests made on their own: incomes and per-tier counts
OfferIncomes == Incomes \cup {1, 1200000}
OfferCounts == [{"T1", "T2", "T3"} -> 0..MaxCount]

\* C10: with TOXIC_BLOCK set, a T1 offer request with a T3 count above 0
\* returns (0, 0) for every income and T1 count, and the simulator
\* originates no T1 loan while a T3 loan of its collection has a balance.
C10_ToxicBlock ==
    [][cfg.TOXIC_BLOCK =>
         /\ (month = 0) =>
                \A inc \in OfferIncomes, counts \in OfferCounts :
                    counts["T3"] > 0 => get_offer(cfg, "T1", inc, counts) = <<0, 0>>
         /\ (Originating /\ loans'[Len(loans')].tier = "T1") =>
                \A n \in 1..Len(loans) : ~(loans[n].tier = "T3" /\ loans[n].balance > 0)]_vars

\* T1 was asked while a T3 loan was active and refused, with room left
\* under the T1 account cap
C10_Witness ==
    /\ cfg.TOXIC_BLOCK
    /\ get_counts(loans)["T1"] < cfg.MAX_ORGS_T1
    /\ \E n \in 1..Len(MonthLog) : MonthLog[n].event = "T1_risk_control"
    /\ \E n \in NewThisMonth(loans) : loans[n].tier = "T2"

\* max_accounts of a tier
MaxAccounts(t) ==
    CASE t = "T1" -> cfg.MAX_ORGS_T1
      [] t = "T2" -> cfg.MAX_ORGS_T2
      [] t = "T3" -> cfg.MAX_ORGS_T3

\* the loans of a tier that have a balance
ActiveIn(ls, t) == {n \in 1..Len(ls) : ls[n].tier = t /\ ls[n].balance > 0}

\* C11: an offer request for a tier whose active count has reached its
\* max_accounts returns (0, 0), for every income and every count of the
\* other tiers; and a loan of tier t is originated only while fewer than
\* max_accounts[t] loans of tier t in the collection have a balance.
C11_AccountCap ==
    [][/\ (month = 0) =>
            \A t \in {"T1", "T2", "T3"}, inc \in OfferIncomes, counts \in OfferCounts :
                counts[t] >= MaxAccounts(t) => get_offer(cfg, t, inc, counts) = <<0, 0>>
       /\ Originating =>
            LET t == loans'[Len(loans')].tier
            IN  /\ Cardinality(ActiveIn(loans, t)) < MaxAccounts(t)
                /\ Cardinality(ActiveIn(loans', t)) <= MaxAccounts(t)]_vars

\* a month originated loans of a tier until its cap was reached with a gap
\* still open
C11_Witness ==
    \E t \in {"T1", "T2", "T3"} :
        /\ \E n \in NewThisMonth(loans) : loans[n].tier = t
        /\ Cardinality(ActiveIn(loans, t)) = MaxAccounts(t)
        /\ MaxAccounts(t) > 1
        /\ gap > One
        /\ pc = "for"

\* C12: a Simulator is not constructed from a nonsensical configuration:
\* whenever a step has run, the income is positive, the living cost and
\* the reserve the run started from are not negative and no loan has a
\* negative limit.
C12_InvalidConfigFailsFast ==
    (month > 0) =>
        /\ income > 0
        /\ living_cost >= 0
        /\ (month = 1 => pre.savings >= 0)
        /\ \A n \in 1..Len(loans) : loans[n].limit >= 0

\* C13: every Loan a simulator holds has a limit, a balance and a payment
\* that are not negative: a record with a negative value is rejected or
\* clamped when the Loan is created.
C13_LoanRecordsValidated ==
    \A n \in 1..Len(loans) :
        loans[n].limit >= 0 /\ loans[n].balance >= 0 /\ loans[n].monthly_pay >= 0

\* the loans as the maturity pass of the running month leaves them, from
\* the state in which the call began
PreAfterMaturity ==
    [n \in PreIdx |->
        IF pre.loans[n].balance > 0 /\ pre.loans[n].maturity - 1 <= 0
        THEN [pre.loans[n] EXCEPT !.balance = 0]
        ELSE pre.loans[n]]

\* nothing can fund the month: no reserve, no revolving headroom, and the
\* Market refuses T1, T2 and T3 for the counts after the maturity pass
NoFunding ==
    /\ pre.savings = 0
    /\ \A n \in PreIdx :
          ~(PreAfterMaturity[n].logic_type = "Revolving"
            /\ PreAfterMaturity[n].balance < PreAfterMaturity[n].limit)
    /\ \A t \in {"T1", "T2", "T3"} : OfferLimit(t, PreAfterMaturity) <= 0

\* the second scenario of the specification: income 5000, living cost 6000,
\* no loans, max_accounts 0: dead in month 1 with a gap of 1000
DeathExample ==
    (income = 500000 /\ living_cost = 600000 /\ month = 1 /\ Returned) =>
        /\ is_dead
        /\ death_reason = <<"cash_chain_broken", 100000>>
        /\ LastSnapshot.Gap = 100000
        /\ LastSnapshot.Month = 1

\* C14: a month whose deficit is above 1 and that nothing can fund ends
\* with is_dead set, the snapshot of that month carrying the whole deficit
\* as unmet gap, death_reason reporting that amount, and no loan
\* originated.
C14_UnfundedDeficitKills ==
    /\ (Returned /\ PreNetFlow < -One /\ NoFunding) =>
          /\ is_dead
          /\ LastSnapshot.Month = month
          /\ LastSnapshot.Gap = -PreNetFlow
          /\ death_reason = <<"cash_chain_broken", -PreNetFlow>>
          /\ Len(loans) = Len(pre.loans)
          /\ NoBorrowingLogged
    /\ DeathExample

\* an unfunded deficit with loans in the collection, one of which came due
C14_Witness ==
    /\ Returned /\ PreNetFlow < -One /\ NoFunding /\ ~pre.is_dead
    /\ \E n \in PreIdx : pre.loans[n].balance > 0 /\ loans[n].balance = 0
    /\ \E n \in PreIdx : loans[n].balance > 0

\* C16: a run owns its loans: no step of the simulator changes a Loan of
\* the portfolio it was built from, so another simulator built from that
\* portfolio starts from the same balances and maturities.
C16_PortfolioUntouched ==
    [][selected_client_loans' = selected_client_loans]_vars

\* the simulator has drawn on, counted down and added to its own loans
C16_Witness ==
    /\ Returned
    /\ Len(loans) > Len(selected_client_loans)
    /\ \E n \in 1..Len(selected_client_loans) :
          /\ loans[n].balance > selected_client_loans[n].balance
          /\ loans[n].maturity < selected_client_loans[n].maturity

BaseRate(t) ==
    CASE t = "T1" -> cfg.BASE_RATE_T1
      [] t = "T2" -> cfg.BASE_RATE_T2
      [] t = "T3" -> cfg.BASE_RATE_T3

\* r is min(base_rate * penalty^count, 0.36) to the 4 decimals of a rate
IsCappedRate(r, t, count) ==
    LET num == BaseRate(t) * Pow(cfg.PENALTY_RATE[1], count)
        den == Pow(cfg.PENALTY_RATE[2], count)
    IN  IF num >= 3600 * den
        THEN r = 3600
        ELSE /\ 2 * (r * den - num) <= den
             /\ 2 * (num - r * den) <= den

\* C17: an offer that is not a refusal carries the rate
\* min(base_rate x penalty^count, 0.36), to 4 decimals, for every tier,
\* income and count, and no loan the simulator originates has a rate above
\* 0.36.
C17_RateCeiling ==
    [][/\ (month = 0) =>
            \A t \in {"T1", "T2", "T3"}, inc \in OfferIncomes, counts \in OfferCounts :
                LET o == get_offer(cfg, t, inc, counts)
                IN  o[1] > 0 => (o[2] <= 3600 /\ IsCappedRate(o[2], t, counts[t]))
       /\ Originating => loans'[Len(loans')].rate <= 3600
       /\ \A n \in 1..Len(loans) : loans[n].name.src # "init" => loans[n].rate <= 3600]_vars

\* a loan was originated at the ceiling where the penalised rate is above it
C17_Witness ==
    \E n \in NewThisMonth(loans) :
        /\ loans[n].rate = 3600
        /\ BaseRate(loans[n].tier) * cfg.PENALTY_RATE[1] > 3600 * cfg.PENALTY_RATE[2]

\* org codes and account-type codes a Loan is created from on its own:
\* the codes of the tables and codes that are in neither
TestOrgCodes == DOMAIN ORG_TIER_MAP \cup {0, 13, 77, 100}
TestAcctTypes == DOMAIN ACCT_TYPE_MAP \cup {"XX", "R5", ""}

Classified(l) ==
    /\ l.tier \in {"T1", "T2", "T3"}
    /\ l.logic_type \in {"Revolving", "Fixed"}
    /\ l.org_code \notin DOMAIN ORG_TIER_MAP => l.tier = "T3"
    /\ l.org_code \in DOMAIN ORG_TIER_MAP => l.tier = ORG_TIER_MAP[l.org_code]
    /\ l.acct_type_code \notin DOMAIN ACCT_TYPE_MAP => l.logic_type = "Fixed"
    /\ l.acct_type_code \in DOMAIN ACCT_TYPE_MAP =>
          l.logic_type = ACCT_TYPE_MAP[l.acct_type_code]

TotalBalance(ls) == SumSeq([n \in 1..Len(ls) |-> ls[n].balance])

\* C19: every call of run_month appends exactly one snapshot, in the death
\* month too: between calls the history is as long as the month counter,
\* snapshot i carries month i, its Total_Debt is the sum of its three tier
\* debts, and the total of the last snapshot is the sum of the balances of
\* all loans at the end of the step.
C19_OneSnapshotPerMonth ==
    /\ Len(history) = IF pc \in {"idle", "done"} THEN month ELSE month - 1
    /\ \A n \in 1..Len(history) :
          /\ history[n].Month = n
          /\ history[n].Total_Debt =
               history[n].T1_Debt + history[n].T2_Debt + history[n].T3_Debt
    /\ Returned => LastSnapshot.Total_Debt = TotalBalance(loans)

\* the step in which the simulator died has left its snapshot, with debt in
\* all three tiers
C19_Witness ==
    /\ Returned /\ is_dead /\ ~pre.is_dead
    /\ Len(history) = month /\ month > 1
    /\ LastSnapshot.T1_Debt > 0 /\ LastSnapshot.T2_Debt > 0 /\ LastSnapshot.T3_Debt > 0

\* the log of the current month has a draw on a loan of this name
DrawLogged(name) ==
    \E e \in 1..Len(MonthLog) :
        MonthLog[e].event = "revolving_draw" /\ MonthLog[e].detail = <<name>>

\* C20: the scheduled payment never reduces principal.  In every step of
\* run_month the limit and the payment of an existing loan stay as they
\* are, and its balance either stays, or is set to 0 by the maturity pass,
\* or is raised by a revolving draw; over a whole month, the balance of a
\* loan that neither came due nor was drawn is the one it began with.
C20_PaymentKeepsBalance ==
    [][/\ \A n \in 1..Len(loans) :
            /\ loans'[n].limit = loans[n].limit
            /\ loans'[n].monthly_pay = loans[n].monthly_pay
            /\ \/ loans'[n].balance = loans[n].balance
               \/ /\ pc = "mature" /\ loans[n].balance > 0 /\ loans[n].maturity <= 0
                  /\ loans'[n].balance = 0
               \/ /\ pc = "revolve" /\ loans[n].logic_type = "Revolving"
                  /\ loans'[n].balance > loans[n].balance
       /\ (pc = "record") =>
            \A n \in PreIdx :
                (~(pre.loans[n].balance > 0 /\ pre.loans[n].maturity - 1 <= 0)
                 /\ ~DrawLogged(pre.loans[n].name))
                => loans[n].balance = pre.loans[n].balance]_vars

\* a loan with a balance and a payment was paid for a month, neither came
\* due nor was drawn, and owes what it owed
C20_Witness ==
    /\ Returned
    /\ \E n \in PreIdx :
          /\ pre.loans[n].balance > 0 /\ pre.loans[n].monthly_pay > 0
          /\ loans[n].maturity = pre.loans[n].maturity - 1
          /\ loans[n].maturity > 0
          /\ ~DrawLogged(pre.loans[n].name)
          /\ loans[n].balance = pre.loans[n].balance

\* every Revolving loan of the list has 0 <= balance <= limit
WithinLimit(ls) ==
    \A n \in 1..Len(ls) :
        ls[n].logic_type = "Revolving" => (0 <= ls[n].balance /\ ls[n].balance <= ls[n].limit)

\* C21: a revolving self-draw is made only onto a loan below its limit and
\* leaves it at or below its limit, a newly originated loan has a balance
\* at or below its limit, and if the Revolving loans of the initial
\* portfolio have 0 <= balance <= limit, so has every Revolving loan in
\* every state.
C21_RevolvingWithinLimit ==
    [][/\ (pc = "revolve" /\ loans' # loans) =>
            /\ loans[k].balance < loans[k].limit
            /\ loans'[k].balance > loans[k].balance
            /\ loans'[k].balance <= loans[k].limit
       /\ Originating =>
            /\ loans'[Len(loans')].balance > 0
            /\ loans'[Len(loans')].balance <= loans'[Len(loans')].limit
       /\ WithinLimit(selected_client_loans) => (WithinLimit(loans) /\ WithinLimit(loans'))]_vars

\* one month has drawn a loan of the portfolio up to its limit with a gap
\* left over, and has originated a loan that is not drawn in full
C21_Witness ==
    /\ Returned
    /\ \E n \in PreIdx :
          /\ loans[n].logic_type = "Revolving"
          /\ pre.loans[n].balance < loans[n].balance
          /\ loans[n].balance = loans[n].limit
    /\ \E n \in NewThisMonth(loans) : loans[n].balance < loans[n].limit

\* C22: whenever the Market refuses the offer request of a tier in the
\* new-borrowing stage, for whatever reason, a rejection entry is appended
\* to the log before the simulator moves on to the next tier.
C22_RefusalLogged ==
    [][(pc = "while" /\ gap > One /\ Offer[1] <= 0) =>
          /\ pc' = "for"
          /\ source' = source + 1
          /\ Len(structured_logs') = Len(structured_logs) + 1
          /\ structured_logs'[Len(structured_logs')].category = "rejected"
          /\ structured_logs'[Len(structured_logs')].month = month]_vars

\* C23: the revolving self-draw visits the loans in portfolio order, draws
\* min(headroom, gap) on each Revolving loan below its limit, and stops as
\* soon as the gap is <= 1: with a remaining gap of 1 or less, exactly 1
\* included, no further loan is drawn in that month.
C23_DrawStopsAtTolerance ==
    [][(pc = "revolve") =>
          /\ k' \in {k, k + 1}
          /\ \A n \in 1..Len(loans) : n # k => loans'[n] = loans[n]
          /\ IF gap > One /\ CanDraw(loans[k])
             THEN loans'[k].balance =
                    loans[k].balance + Min(loans[k].limit - loans[k].balance, gap)
             ELSE loans'[k] = loans[k]]_vars

\* C24: after the payment pass, every loan with maturity <= 0 and a
\* balance > 0 has its whole balance added to the month's outflow, on top
\* of its scheduled payment of the same month, and its balance set to 0;
\* the net flow of the month is income minus living cost, the payments of
\* the loans that had a balance and the matured principal.
C24_MaturityEvent ==
    [][/\ (pc = "mature") =>
            /\ \A n \in 1..Len(loans) :
                  loans'[n].balance =
                      IF loans[n].maturity <= 0 /\ loans[n].balance > 0
                      THEN 0 ELSE loans[n].balance
            /\ total_outflow' =
                  living_cost
                  + SumSeq([n \in PreIdx |->
                              IF pre.loans[n].balance > 0
                              THEN pre.loans[n].monthly_pay ELSE 0])
                  + SumSeq([n \in 1..Len(loans) |->
                              IF loans[n].maturity <= 0 /\ loans[n].balance > 0
                              THEN loans[n].balance ELSE 0])
       /\ (pc = "netflow") =>
            /\ income - total_outflow = PreNetFlow
            /\ PreNetFlow >= 0 => (savings' = savings + PreNetFlow /\ gap' = 0)
            /\ PreNetFlow < 0 => gap' + (savings - savings') = -PreNetFlow]_vars

\* a loan with a payment came due beside a loan that is still running, and
\* its principal put the month into deficit
C24_Witness ==
    /\ Returned /\ PreNetFlow < 0
    /\ \E n, m \in PreIdx :
          /\ pre.loans[n].balance > 0 /\ pre.loans[n].monthly_pay > 0
          /\ pre.loans[n].maturity = 1 /\ loans[n].maturity = 0
          /\ pre.loans[n].logic_type = "Fixed" /\ loans[n].balance = 0
          /\ pre.loans[m].balance > 0 /\ loans[m].maturity > 0
    /\ income - living_cost
         - SumSeq([n \in PreIdx |-> IF pre.loans[n].balance > 0
                                    THEN pre.loans[n].monthly_pay ELSE 0]) >= 0

\* p is 3% of the amount a, to the cent
IsThreePercent(p, a) ==
    /\ 2 * (PCT_DEN * p - PCT_NUM * a) <= PCT_DEN
    /\ 2 * (PCT_NUM * a - PCT_DEN * p) <= PCT_DEN

\* C25: a loan the simulator originates is a Revolving loan of the tier
\* that was asked, its limit is the offered limit, its balance is
\* min(offered limit, remaining gap), its payment is 3% of the balance, its
\* maturity is 12; it is appended at the end of the loans, which stay as
\* they are, and the gap goes down by exactly the balance.
C25_OriginatedLoan ==
    [][Originating =>
         LET new == loans'[Len(loans')]
             o   == get_offer(cfg, Tiers[source], income, get_counts(loans))
         IN  /\ pc = "while"
             /\ SubSeq(loans', 1, Len(loans)) = loans
             /\ new.logic_type = "Revolving"
             /\ new.tier = Tiers[source]
             /\ new.limit = o[1]
             /\ new.rate = o[2]
             /\ new.balance = Min(o[1], gap)
             /\ IsThreePercent(new.monthly_pay, new.balance)
             /\ new.maturity = 12
             /\ gap' = gap - new.balance]_vars

\* a month has originated a loan drawn in full and, after it, a loan drawn
\* for the rest of the gap only
C25_Witness ==
    /\ Returned /\ gap = 0
    /\ \E n, m \in NewThisMonth(loans) :
          /\ n < m
          /\ loans[n].balance = loans[n].limit
          /\ loans[m].balance < loans[m].limit
          /\ loans[m].monthly_pay > 0
          /\ loans[m].maturity = 12

\* the step draws on a loan of the collection
SelfDrawing == pc = "revolve" /\ loans' # loans

\* C26: the gap is resolved by the reserve first, then by revolving
\* self-draws, then by new loans: when a self-draw or an origination
\* happens the savings are 0, and they are 0 in the snapshot of that
\* month; and when a loan is originated no Revolving loan of the
\* collection is below its limit.
C26_StrictPriority ==
    [][/\ (SelfDrawing \/ Originating) => savings = 0
       /\ Originating => \A n \in 1..Len(loans) : ~CanDraw(loans[n])
       /\ (pc = "record" /\ ~NoBorrowingLogged) =>
             savings = 0 /\ history'[Len(history')].Savings = 0]_vars

\* one month has used up its savings, drawn a loan up to its limit and
\* originated a loan
C26_Witness ==
    /\ Returned /\ pre.savings > 0 /\ savings = 0
    /\ \E n \in PreIdx : loans[n].balance > pre.loans[n].balance /\ pre.loans[n].balance > 0
    /\ NewThisMonth(loans) # {}
    /\ LastSnapshot.Savings = 0

\* C27: the savings are never negative: they start at 0 or above, only the
\* reserve stage takes from them, and it takes min(savings, gap).
C27_ReserveNotNegative ==
    [][/\ savings >= 0
       /\ savings' >= 0
       /\ (savings' < savings) =>
             /\ pc = "netflow"
             /\ PreNetFlow < 0
             /\ savings - savings' = Min(savings, -PreNetFlow)]_vars

\* a month whose gap was larger than the savings has left them at 0
C27_Witness ==
    /\ Returned
    /\ pre.savings > 0
    /\ -PreNetFlow > pre.savings
    /\ savings = 0

\* C28: the simulator dies only when every funding source is exhausted:
\* when a step has just set is_dead, the savings are 0, no Revolving loan
\* is below its limit, and the Market's offer for each of T1, T2 and T3
\* with the final active counts has limit 0.
C28_DeathMeansExhausted ==
    (Returned /\ is_dead /\ ~pre.is_dead) =>
        /\ savings = 0
        /\ \A n \in 1..Len(loans) : ~CanDraw(loans[n])
        /\ \A t \in {"T1", "T2", "T3"} : OfferLimit(t, loans) = 0

\* the simulator died in a month in which it used its savings, drew on a
\* loan and originated loans up to the caps
C28_Witness ==
    /\ Returned /\ is_dead /\ ~pre.is_dead
    /\ pre.savings > 0
    /\ \E n \in PreIdx : loans[n].balance > pre.loans[n].balance
    /\ \E n \in NewThisMonth(loans) : loans[n].tier = "T3"

\* the loans of a tier the simulator has originated, by position
OriginatedIn(ls, t) == {n \in 1..Len(ls) : ls[n].name.src # "init" /\ ls[n].tier = t}

\* C29: over a whole run the number of loans the simulator has originated
\* in a tier never exceeds the max_accounts of the tier, although an
\* originated loan comes due and stops counting as active: when a loan is
\* originated, every loan originated before it is drawn up to its limit.
C29_OriginationsWithinCap ==
    [][/\ \A t \in {"T1", "T2", "T3"} :
            Cardinality(OriginatedIn(loans', t)) <= MaxAccounts(t)
       /\ Originating =>
            \A t \in {"T1", "T2", "T3"} : \A n \in OriginatedIn(loans, t) :
                loans[n].balance = loans[n].limit /\ loans[n].balance > 0]_vars

\* an originated loan has come due after its 12 months and has been drawn
\* again, in a tier whose cap the originations have reached
C29_Witness ==
    /\ pc = "for" /\ gap > One /\ month > NEW_MATURITY
    /\ \E t \in {"T1", "T2", "T3"} :
          /\ MaxAccounts(t) > 0
          /\ Cardinality(OriginatedIn(loans, t)) = MaxAccounts(t)
          /\ \E n \in OriginatedIn(loans, t) :
                /\ loans[n].maturity = 0
                /\ loans[n].balance = loans[n].limit

\* the sum of the amounts the log of the current month has for an event
LoggedAmount(event) ==
    SumSeq([e \in 1..Len(MonthLog) |->
               IF MonthLog[e].event = event THEN MonthLog[e].amount ELSE 0])

\* what the month has drawn on the loans it began with, after their
\* maturity pass
SelfDraws ==
    SumSeq([n \in PreIdx |-> loans[n].balance - PreAfterMaturity[n].balance])

\* what the month has drawn on the loans it originated
NewDraws ==
    SumSeq([n \in 1..Len(loans) |-> IF n > Len(pre.loans) THEN loans[n].balance ELSE 0])

\* C30: in a deficit month the initial gap (living cost + payments + matured
\* principal - income) is the reserve used plus the revolving self-draws
\* plus the amounts drawn on the loans originated in the month plus the
\* unmet gap of the snapshot, and the total debt at the end of the month
\* is the total debt after the maturity pass plus the self-draws and the
\* new draws.
C30_CashConservation ==
    (Returned /\ PreNetFlow < 0) =>
        /\ -PreNetFlow =
              (pre.savings - savings) + SelfDraws + NewDraws + LastSnapshot.Gap
        /\ SelfDraws = LoggedAmount("revolving_draw")
        /\ NewDraws = LoggedAmount("approved")
        /\ \A n \in PreIdx : loans[n].balance >= PreAfterMaturity[n].balance
        /\ LastSnapshot.Total_Debt =
              TotalBalance(PreAfterMaturity) + SelfDraws + NewDraws

\* a deficit month with a part of each kind: reserve, self-draw, new loans
\* and an unmet gap, after a loan came due
C30_Witness ==
    /\ Returned /\ PreNetFlow < 0
    /\ pre.savings > savings
    /\ SelfDraws > 0
    /\ NewDraws > 0
    /\ LastSnapshot.Gap > 0
    /\ \E n \in PreIdx : pre.loans[n].balance > 0 /\ PreAfterMaturity[n].balance = 0

\* the loans of a tier originated in the current month, by position
NewInTier(ls, t) == {n \in NewThisMonth(ls) : ls[n].tier = t}

\* C31: the new-borrowing loop of a month always ends: an origination draws
\* a positive amount and raises the active count of the tier asked by one,
\* a month originates at most max_accounts loans of a tier, and every call
\* of run_month that has begun returns.
C31_BorrowingTerminates ==
    /\ [][/\ Originating =>
               LET t == Tiers[source]
               IN  /\ loans'[Len(loans')].balance > 0
                   /\ gap' < gap
                   /\ get_counts(loans')[t] = get_counts(loans)[t] + 1
                   /\ \A u \in {"T1", "T2", "T3"} \ {t} :
                         get_counts(loans')[u] = get_counts(loans)[u]
          /\ \A t \in {"T1", "T2", "T3"} :
               Cardinality(NewInTier(loans', t)) <= MaxAccounts(t)]_vars
    /\ (pc \notin {"idle", "done"}) ~> (pc = "idle")

\* a call has returned after originating loans of a tier up to its cap and
\* being refused with a gap still open
C31_Witness ==
    /\ Returned /\ gap > One
    /\ \E t \in {"T1", "T2", "T3"} :
          /\ MaxAccounts(t) >= 2
          /\ Cardinality(NewInTier(loans, t)) = MaxAccounts(t)

(* ------------------------------------------------------------------ *)
(* run_month as a function of the simulator object                      *)
(* ------------------------------------------------------------------ *)
\* the fields of the simulator and the locals of the running call
SimState ==
    [ savings |-> savings, loans |-> loans, month |-> month, is_dead |-> is_dead,
      death_reason |-> death_reason, structured_logs |-> structured_logs,
      history |-> history, pc |-> pc, total_payment |-> total_payment,
      total_outflow |-> total_outflow, gap |-> gap, k |-> k, source |-> source ]

\* the next statement block of run_month on the simulator sim, the same
\* blocks as the actions above
run_month(sim) ==
    CASE sim.pc = "idle" ->
           [sim EXCEPT
              !.month = sim.month + 1,
              !.total_payment = PaymentsDue(sim.loans),
              !.total_outflow = living_cost + PaymentsDue(sim.loans),
              !.loans = PayLoop(sim.loans),
              !.structured_logs =
                  log(log(sim.structured_logs, sim.month + 1, "expense", "living_cost",
                          -living_cost, <<>>),
                      sim.month + 1, "expense", "monthly_payment",
                      -PaymentsDue(sim.loans), <<ActiveCount(sim.loans)>>),
              !.pc = "mature", !.gap = 0, !.k = 0, !.source = 0]
      [] sim.pc = "mature" ->
           LET matured_principal == MaturedPrincipal(sim.loans)
           IN  [sim EXCEPT
                  !.loans = PayOff(sim.loans),
                  !.structured_logs =
                      IF matured_principal > 0
                      THEN log(sim.structured_logs, sim.month, "shock", "principal_due",
                               -matured_principal, MaturedDetails(sim.loans))
                      ELSE sim.structured_logs,
                  !.total_outflow = OutflowWithPrincipal(sim.total_outflow, matured_principal),
                  !.pc = "netflow"]
      [] sim.pc = "netflow" ->
           LET net_flow == income - sim.total_outflow
               gap0 == -net_flow
               used == ReserveUsed(sim.savings, gap0)
               logs0 == log(sim.structured_logs, sim.month, "income", "salary", income, <<>>)
               logs1 == log(logs0, sim.month, "warning", "gap", -gap0, <<>>)
           IN  IF net_flow >= 0
               THEN [sim EXCEPT
                       !.savings = sim.savings + net_flow,
                       !.structured_logs = log(logs0, sim.month, "saving", "deposit", net_flow, <<>>),
                       !.gap = 0, !.pc = "record"]
               ELSE [sim EXCEPT
                       !.savings = sim.savings - used,
                       !.gap = gap0 - used,
                       !.structured_logs =
                           IF sim.savings > 0
                           THEN log(logs1, sim.month, "fill", "use_savings", used, <<>>)
                           ELSE logs1,
                       !.pc = AfterReserve(gap0 - used, sim.loans),
                       !.k = 1, !.source = 1]
      [] sim.pc = "revolve" ->
           IF CanDraw(sim.loans[sim.k])
           THEN LET draw == RevolveDraw(sim.loans[sim.k], sim.gap)
                    last == RevolveBreak(sim.gap - draw) \/ sim.k = Len(sim.loans)
                IN  [sim EXCEPT
                       !.loans[sim.k].balance = sim.loans[sim.k].balance + draw,
                       !.gap = sim.gap - draw,
                       !.structured_logs =
                           log(sim.structured_logs, sim.month, "fill", "revolving_draw", draw,
                               <<sim.loans[sim.k].name>>),
                       !.pc = IF last THEN AfterRevolve(sim.gap - draw) ELSE "revolve",
                       !.k = IF last THEN sim.k ELSE sim.k + 1]
           ELSE LET last == sim.k = Len(sim.loans)
                IN  [sim EXCEPT
                       !.pc = IF last THEN AfterRevolve(sim.gap) ELSE "revolve",
                       !.k = IF last THEN sim.k ELSE sim.k + 1]
      [] sim.pc = "for" ->
           [sim EXCEPT
              !.pc = IF sim.source > Len(Tiers) \/ sim.gap < One THEN "record" ELSE "while"]
      [] sim.pc = "while" ->
           LET src    == Tiers[sim.source]
               counts == get_counts(sim.loans)
               offer  == get_offer(cfg, src, income, counts)
               draw   == NewDraw(offer[1], sim.gap)
           IN  IF ~(sim.gap > One)
               THEN [sim EXCEPT !.source = sim.source + 1, !.pc = "for"]
               ELSE IF offer[1] <= 0
               THEN [sim EXCEPT
                       !.structured_logs =
                           IF src = "T1" /\ counts["T3"] > 0 /\ cfg.TOXIC_BLOCK
                           THEN log(sim.structured_logs, sim.month, "rejected",
                                    "T1_risk_control", 0, <<"toxic">>)
                           ELSE sim.structured_logs,
                       !.source = sim.source + 1, !.pc = "for"]
               ELSE [sim EXCEPT
                       !.loans = Append(sim.loans,
                                        NewLoan(src, sim.month, offer[1], draw, offer[2])),
                       !.gap = sim.gap - draw,
                       !.structured_logs =
                           log(sim.structured_logs, sim.month, "borrow", "approved", draw,
                               <<src, offer[2]>>)]
      [] sim.pc = "record" ->
           [sim EXCEPT
              !.history = record_stats(sim.history, sim.month, sim.loans, sim.savings, sim.gap),
              !.is_dead = DeathCheck(sim.is_dead, sim.gap),
              !.death_reason = IF sim.gap > One THEN <<"cash_chain_broken", sim.gap>>
                               ELSE sim.death_reason,
              !.pc = "idle"]
      [] OTHER -> sim

\* rates a second simulator has on its initial loans, in place of the
\* defaults of the first
TestRates == {0, 3600}

\* the positions of the loans of the initial portfolio
InitIdx == 1..Len(selected_client_loans)

Reratings == [InitIdx -> TestRates]

\* the simulator sim with the rates f on its initial loans
Rerate(sim, f) ==
    [sim EXCEPT
       !.loans = [n \in 1..Len(sim.loans) |->
                     IF n \in DOMAIN f
                     THEN [sim.loans[n] EXCEPT !.rate = f[n]]
                     ELSE sim.loans[n]]]

\* everything of a simulator but the rates of its initial loans
LowView(sim) == Rerate(sim, [n \in InitIdx |-> 0])

\* a whole call of run_month on sim
RECURSIVE Call(_)
Call(sim) ==
    LET s == run_month(sim)
    IN  IF s.pc = "idle" THEN s ELSE Call(s)

\* the simulator the running call began with; the call of an Alive
\* simulator leaves death_reason as it was, and the locals are set anew
SimAtCall ==
    [SimState EXCEPT
       !.savings = pre.savings, !.loans = pre.loans, !.is_dead = pre.is_dead,
       !.month = month - 1, !.pc = "idle",
       !.death_reason = <<>>,
       !.structured_logs = SelectSeq(structured_logs, LAMBDA e : e.month < month),
       !.history = SubSeq(history, 1, month - 1)]

\* the simulator with the rates f on its initial loans, after the same call
Twin(f) == Call(Rerate(SimAtCall, f))

\* C32: the rate of a loan has no influence on the simulation.  The rate
\* argument of Loan sets the rate field only; every step of run_month is
\* the step of run_month(sim), and taken from a simulator that differs in
\* the rates of its initial loans only it leads to a simulator that again
\* differs in those rates only: same history, same log, same is_dead, same
\* balances, in every month.
C32_RateHasNoInfluence ==
    [][/\ (month = 0) =>
            \A row \in LoanRows, r \in TestRates :
                Loan("x", row[1], row[2], row[3], row[4], row[5], row[6], r)
                  = [Loan("x", row[1], row[2], row[3], row[4], row[5], row[6], NoRate)
                       EXCEPT !.rate = r]
       /\ (pc' # "done") =>
            /\ SimState' = run_month(SimState)
            /\ \A f \in Reratings :
                  LowView(run_month(Rerate(SimState, f))) = LowView(SimState')]_vars

\* a call on a second simulator, with other rates on its initial loans, has
\* drawn on a loan, originated loans and died as the first did, with the
\* same history and log
C32_Witness ==
    /\ Returned /\ is_dead /\ ~pre.is_dead
    /\ Len(selected_client_loans) > 0
    /\ \E n \in PreIdx : loans[n].balance > pre.loans[n].balance
    /\ NewThisMonth(loans) # {}
    /\ \E f \in Reratings :
          /\ \A n \in InitIdx : Twin(f).loans[n].rate # loans[n].rate
          /\ Twin(f).history = history
          /\ Twin(f).structured_logs = structured_logs
          /\ Twin(f).is_dead
          /\ LowView(Twin(f)) = LowView(SimState)

====
